---- MODULE Spec2Model ----
(***************************************************************************)
(* Model of src/admin.py: the Interiors admin.                             *)
(*                                                                         *)
(*   - InteriorsAdmin.bulk_upload_view: the bulk image importer, one       *)
(*     request at a time, one loop iteration per step;                     *)
(*   - InteriorsAdmin.changelist_view: the session-backed view mode.       *)
(*                                                                         *)
(* Text is a sequence of one-character strings, so that rsplit, replace    *)
(* and title are computed character by character.  An optional value (a    *)
(* local that may be unbound, a key that may be missing from a mapping)    *)
(* is a sequence of length 0 or 1.                                         *)
(***************************************************************************)
EXTENDS Integers, Sequences, FiniteSets

\* ---------------------------------------------------------------- bounds
MaxFiles == 3          \* files in one upload batch (Spec)
MaxStored == 2         \* records in the table when a request arrives (Spec)
MaxLen == 3            \* length of an enumerated filename (SpecName)
MaxViewRequests == 3   \* changelist requests in one behaviour (SpecView)

\* ------------------------------------------------------------ characters
Lowers == <<"a","b","c","d","e","f","g","h","i","j","k","l","m",
            "n","o","p","q","r","s","t","u","v","w","x","y","z">>
Uppers == <<"A","B","C","D","E","F","G","H","I","J","K","L","M",
            "N","O","P","Q","R","S","T","U","V","W","X","Y","Z">>

IndexIn(c, s) == IF \E i \in 1..Len(s) : s[i] = c
                 THEN CHOOSE i \in 1..Len(s) : s[i] = c
                 ELSE 0

IsLower(c) == IndexIn(c, Lowers) # 0
IsUpper(c) == IndexIn(c, Uppers) # 0
ToUpper(c) == IF IsLower(c) THEN Uppers[IndexIn(c, Lowers)] ELSE c
ToLower(c) == IF IsUpper(c) THEN Lowers[IndexIn(c, Uppers)] ELSE c

\* ------------------------------------------------- the name of a record
\* Index of the last "." of s, 0 when there is none (the scan of rsplit).
RECURSIVE LastDot(_)
LastDot(s) == IF s = <<>> THEN 0
              ELSE IF s[Len(s)] = "." THEN Len(s)
              ELSE LastDot(SubSeq(s, 1, Len(s) - 1))

\* Index of the first "." of s, 0 when there is none (the scan of split).
RECURSIVE FirstDot(_)
FirstDot(s) == IF s = <<>> THEN 0
               ELSE IF Head(s) = "." THEN 1
               ELSE IF FirstDot(Tail(s)) = 0 THEN 0
               ELSE 1 + FirstDot(Tail(s))

\* image.name.split('.', 1)[0]: cut at the first "." instead of the last.
SplitBase(s) == IF FirstDot(s) = 0 THEN s ELSE SubSeq(s, 1, FirstDot(s) - 1)

\* image.name.rsplit('.', 1)[0]
RSplitBase(s) == IF LastDot(s) = 0 THEN s ELSE SubSeq(s, 1, LastDot(s) - 1)

\* A replace that deletes the character instead of putting `new` in its place.
RECURSIVE ReplaceDrop(_, _, _)
ReplaceDrop(s, old, new) ==
    IF s = <<>> THEN <<>>
    ELSE IF Head(s) = old THEN ReplaceDrop(Tail(s), old, new)
    ELSE <<Head(s)>> \o ReplaceDrop(Tail(s), old, new)

\* str.replace(old, new) for one-character old and new
RECURSIVE Replace(_, _, _)
Replace(s, old, new) ==
    IF s = <<>> THEN <<>>
    ELSE <<IF Head(s) = old THEN new ELSE Head(s)>> \o Replace(Tail(s), old, new)

\* str.title(): a cased character is upper-cased when the character before it
\* is not cased and lower-cased when it is; other characters are kept.
RECURSIVE TitleFrom(_, _)
TitleFrom(s, previous_is_cased) ==
    IF s = <<>> THEN <<>>
    ELSE LET c == Head(s) IN
         IF IsLower(c)
         THEN <<IF previous_is_cased THEN c ELSE ToUpper(c)>> \o TitleFrom(Tail(s), TRUE)
         ELSE IF IsUpper(c)
         THEN <<IF previous_is_cased THEN ToLower(c) ELSE c>> \o TitleFrom(Tail(s), TRUE)
         ELSE <<c>> \o TitleFrom(Tail(s), FALSE)

Title(s) == TitleFrom(s, FALSE)

\* filename = image.name.rsplit('.', 1)[0]
\* name = filename.replace('_', ' ').replace('-', ' ').title()
DisplayName(image_name) ==
    LET filename == RSplitBase(image_name)
    IN  Title(Replace(Replace(filename, "_", " "), "-", " "))

\* ------------------------------------------------------- uploaded files
\* An uploaded file is its name and the statement of the try block at which
\* processing it raises: "none", "name" (lines 94-97), "construct" (lines
\* 100-103) or "save" (line 104).
Faults == {"none", "name", "construct", "save"}

File(n, f) == [name |-> n, fault |-> f]

\* The filenames of Spec: two files with different display names.
BatchNames == { <<"a", ".", "b">>, <<"b", "_", "a">> }

SeqsUpTo(S, n) == UNION { [1..k -> S] : k \in 0..n }

Batches == SeqsUpTo({ File(n, f) : n \in BatchNames, f \in Faults }, MaxFiles)

\* The filenames of SpecName: every name of at most MaxLen characters over
\* Alphabet that a validated form can carry (the upload parser drops a file
\* named "", "." or ".."), and the two names the documentation gives.
Alphabet == {"a", "B", "_", "-", "."}

ModernLivingRoomJpg == <<"m","o","d","e","r","n","_","l","i","v","i","n","g","-",
                         "r","o","o","m",".","j","p","g">>
SofaPng == <<"S","O","F","A",".","p","n","g">>

Filenames == ((SeqsUpTo(Alphabet, MaxLen) \ { <<>>, <<".">>, <<".", ".">> })
              \cup { ModernLivingRoomJpg, SofaPng })

NameBatches == { <<File(n, "none")>> : n \in Filenames }

\* ------------------------------------------------------------ view mode
Sessions == {"s1", "s2"}
Modes == {"list", "grid", ""}
Queries == { <<>> } \cup { <<m>> : m \in Modes }   \* request.GET: "view" missing or given

VARIABLES
    pc,                 \* position of bulk_upload_view: "idle", "loop", "done"
    method,             \* request.method
    valid,              \* form.is_valid()
    images,             \* request.FILES.getlist('images')
    idx,                \* number of loop iterations started
    name,               \* the local `name`: <<>> while unbound, else <<text>>
    interiors_created,
    errors,
    store,              \* the Interiors table, in order of insertion
    store0,             \* history: the table when the current request began
    msgs,               \* messages queued by the current request
    response,           \* "none", "redirect", "render", "exception"
    form,               \* the form of a rendered page: "none", "bound", "unbound"
    session,            \* per session: request.session["view_mode"], <<>> if missing
    view_mode,          \* extra_context["view_mode"] of the last changelist request
    log                 \* history: the changelist requests so far

uploadVars == <<pc, method, valid, images, idx, name, interiors_created, errors,
                store, store0, msgs, response, form>>
viewVars == <<session, view_mode, log>>
vars == <<pc, method, valid, images, idx, name, interiors_created, errors,
          store, store0, msgs, response, form, session, view_mode, log>>

Init ==
    /\ pc = "idle"
    /\ method = "GET"
    /\ valid = FALSE
    /\ images = <<>>
    /\ idx = 0
    /\ name = <<>>
    /\ interiors_created = 0
    /\ errors = <<>>
    /\ store = <<>>
    /\ store0 = <<>>
    /\ msgs = <<>>
    /\ response = "none"
    /\ form = "none"
    /\ session = [s \in Sessions |-> <<>>]
    /\ view_mode = <<>>
    /\ log = <<>>

\* ----------------------------------------------------- bulk_upload_view
\* The entry of bulk_upload_view up to the loop: a GET builds an unbound form
\* and renders it, a POST whose form is invalid renders the bound form, a POST
\* whose form is valid reads the files and enters the loop.
Enter(m, v, batch) ==
    /\ method' = m
    /\ valid' = v
    /\ images' = batch
    /\ idx' = 0
    /\ name' = <<>>
    /\ interiors_created' = 0
    /\ errors' = <<>>
    /\ store0' = store
    /\ msgs' = <<>>
    /\ IF m = "POST" /\ v
       THEN pc' = "loop" /\ response' = "none" /\ form' = "none"
       ELSE /\ pc' = "done"
            /\ response' = "render"
            /\ form' = IF m = "POST" THEN "bound" ELSE "unbound"
    /\ UNCHANGED <<store, session, view_mode, log>>

BulkUploadRequest ==
    /\ pc = "idle"
    /\ Len(store) <= MaxStored
    /\ \E m \in {"GET", "POST"}, v \in BOOLEAN, batch \in Batches :
          /\ m = "GET" => (~v /\ batch = <<>>)
          /\ Enter(m, v, batch)

\* A valid POST of one file, of any name, into the empty table.
BulkUploadNameRequest ==
    /\ pc = "idle"
    /\ store = <<>>
    /\ \E batch \in NameBatches : Enter("POST", TRUE, batch)

\* The local `name` after the try block: line 97 assigns it unless a statement
\* before the end of line 97 raised.  (Variant: always the current file's.)
NameAfterFresh(image, nm) == <<DisplayName(image.name)>>

NameAfter(image, nm) ==
    IF image.fault = "name" THEN nm ELSE <<DisplayName(image.name)>>

\* interior.save() writing over the last row instead of inserting a new one.
SavedOver(st, interior) ==
    IF st = <<>> THEN <<interior>> ELSE [st EXCEPT ![Len(st)] = interior]

\* interior.save(): a new row in the table
Saved(st, interior) == Append(st, interior)

\* f"Error creating interior '{name}': {str(e)}", e the exception raised at
\* `step` while file number i was processed
ErrorMessage(nm, i, step) == [name |-> nm, detail |-> [file |-> i, step |-> step]]

\* One iteration of `for image in images` with its try/except.
ProcessFile ==
    /\ pc = "loop"
    /\ idx < Len(images)
    /\ LET i == idx + 1
           image == images[i]
           nm == NameAfter(image, name)
       IN  /\ idx' = i
           /\ name' = nm
           /\ IF image.fault = "none"
              THEN /\ store' = Saved(store, [name |-> nm[1], image |-> image.name])
                   /\ interiors_created' = interiors_created + 1
                   /\ UNCHANGED <<errors, pc, response>>
              ELSE IF nm = <<>>
              THEN \* the handler reads the unbound local: UnboundLocalError
                   \* leaves the except clause and the view
                   /\ pc' = "done"
                   /\ response' = "exception"
                   /\ UNCHANGED <<errors, store, interiors_created>>
              ELSE /\ errors' = Append(errors, ErrorMessage(nm[1], i, image.fault))
                   /\ UNCHANGED <<pc, response, store, interiors_created>>
    /\ UNCHANGED <<method, valid, images, store0, msgs, form,
                   session, view_mode, log>>

\* Lines 110-114: the messages of the request.
ResultMessages(created, errs) ==
    (IF created > 0 THEN << [level |-> "success", created |-> created] >> ELSE <<>>)
    \o [k \in 1..Len(errs) |-> [level |-> "error", error |-> errs[k]]]

\* After the loop: the messages and the redirect.
Finish ==
    /\ pc = "loop"
    /\ idx = Len(images)
    /\ msgs' = ResultMessages(interiors_created, errors)
    /\ response' = "redirect"
    /\ pc' = "done"
    /\ UNCHANGED <<method, valid, images, idx, name, interiors_created, errors,
                   store, store0, form, session, view_mode, log>>

\* The view has returned (or raised): the request and the locals of the call
\* are gone, the table stays.
Respond ==
    /\ pc = "done"
    /\ pc' = "idle"
    /\ method' = "GET"
    /\ valid' = FALSE
    /\ images' = <<>>
    /\ idx' = 0
    /\ name' = <<>>
    /\ interiors_created' = 0
    /\ errors' = <<>>
    /\ store0' = store
    /\ msgs' = <<>>
    /\ response' = "none"
    /\ form' = "none"
    /\ UNCHANGED <<store, session, view_mode, log>>

\* ------------------------------------------------------- changelist_view
\* Variant: the stored value wins over the query parameter.
ViewModeStored(query, stored) ==
    IF stored # <<>> THEN stored[1]
    ELSE IF query # <<>> THEN query[1] ELSE "list"

\* view_mode of lines 140-144
ViewMode(query, stored) ==
    IF query # <<>> THEN query[1]
    ELSE IF stored # <<>> THEN stored[1] ELSE "list"

\* Variant: the view mode is written to the session in both branches.
SessionAfterAlways(query, stored) == <<ViewMode(query, stored)>>

\* request.session["view_mode"] after lines 140-144
SessionAfter(query, stored) == IF query # <<>> THEN query ELSE stored

ChangelistView ==
    /\ Len(log) < MaxViewRequests
    /\ \E s \in Sessions, query \in Queries :
          /\ view_mode' = <<ViewMode(query, session[s])>>
          /\ session' = [session EXCEPT ![s] = SessionAfter(query, session[s])]
          /\ log' = Append(log, [session |-> s, query |-> query])
    /\ UNCHANGED uploadVars

\* -------------------------------------------------------- specifications
Next == BulkUploadRequest \/ ProcessFile \/ Finish \/ Respond
Spec == Init /\ [][Next]_vars

NextName == BulkUploadNameRequest \/ ProcessFile \/ Finish \/ Respond
SpecName == Init /\ [][NextName]_vars

NextView == ChangelistView
SpecView == Init /\ [][NextView]_vars

\* ------------------------------------------------------------ properties
IsLetter(c) == IsLower(c) \/ IsUpper(c)

\* The length of the part of fn that is kept: all of fn when it has no ".",
\* otherwise what stands before the "." that no other "." follows.
BaseLen(fn) ==
    CHOOSE k \in 0..Len(fn) :
        \/ k = Len(fn) /\ \A j \in 1..Len(fn) : fn[j] # "."
        \/ k < Len(fn) /\ fn[k + 1] = "." /\ \A j \in (k + 2)..Len(fn) : fn[j] # "."

\* The display name as the documentation states it, position by position.
ExpectedName(fn) ==
    LET spaced == [i \in 1..BaseLen(fn) |->
                      IF fn[i] \in {"_", "-"} THEN " " ELSE fn[i]]
    IN  [i \in 1..BaseLen(fn) |->
            IF ~IsLetter(spaced[i]) THEN spaced[i]
            ELSE IF i > 1 /\ IsLetter(spaced[i - 1]) THEN ToLower(spaced[i])
            ELSE ToUpper(spaced[i])]

ModernLivingRoom == <<"M","o","d","e","r","n"," ","L","i","v","i","n","g"," ",
                      "R","o","o","m">>
Sofa == <<"S","o","f","a">>

ValidPost == method = "POST" /\ valid
Finished == pc = "done" /\ ValidPost
FailedFiles == { i \in 1..Len(images) : images[i].fault # "none" }
FailedInOrder == SelectSeq([i \in 1..Len(images) |-> i],
                           LAMBDA i : images[i].fault # "none")
HasNoFault(f) == f.fault = "none"

\* C1: a failure while processing one file of a validated batch is caught for
\* that file alone: when the request ends, every file of the batch has been
\* processed, nothing has propagated out of the view and the response is the
\* redirect.
C1_FailureIsolated ==
    Finished => (response = "redirect" /\ idx = Len(images))

\* C2: when the request for a validated batch of N files ends: if no file
\* failed, interiors_created = N and errors is empty; if exactly one file
\* failed, interiors_created = N - 1 and errors has exactly one entry, the one
\* of that failure.
C2_Counts ==
    Finished =>
        /\ FailedFiles = {} =>
              (interiors_created = Len(images) /\ errors = <<>>)
        /\ Cardinality(FailedFiles) = 1 =>
              /\ interiors_created = Len(images) - 1
              /\ Len(errors) = 1
              /\ errors[1].detail.file \in FailedFiles

\* C3: the name of every created record is the uploaded filename without what
\* follows its last "." (whole when it has none), with "_" and "-" replaced by
\* spaces, title-cased; "modern_living-room.jpg" gives "Modern Living Room"
\* and "SOFA.png" gives "Sofa".
C3_DisplayName ==
    \A k \in 1..Len(store) :
        /\ store[k].name = ExpectedName(store[k].image)
        /\ store[k].image = ModernLivingRoomJpg => store[k].name = ModernLivingRoom
        /\ store[k].image = SofaPng => store[k].name = Sofa

C3_Witness ==
    \E k \in 1..Len(store) :
        store[k].image = ModernLivingRoomJpg /\ store[k].name = ModernLivingRoom

NewRecords(n) ==
    LET saved == SelectSeq(SubSeq(images, 1, n), HasNoFault)
    IN  [k \in 1..Len(saved) |->
            [name |-> ExpectedName(saved[k].name), image |-> saved[k].name]]

IsPrefix(s, t) == Len(s) <= Len(t) /\ SubSeq(t, 1, Len(s)) = s

\* C5: the table always holds what it held when the request began followed by
\* one record for each file processed so far whose save succeeded, in batch
\* order; no step removes or alters a record already written.
C5_NoRollback ==
    /\ [](store = store0 \o NewRecords(idx))
    /\ [][IsPrefix(store, store')]_vars

C5_Witness ==
    /\ pc = "done"
    /\ response = "redirect"
    /\ store0 # <<>>
    /\ Len(store) > Len(store0)
    /\ \E i, j \in 1..idx :
          i < j /\ images[i].fault = "none" /\ images[j].fault = "save"

\* C6: when the request for a validated batch ends, the messages queued are
\* one success message if interiors_created > 0 and none otherwise, followed
\* by one error message per failed file, in the order of the failed files.
C6_Notifications ==
    Finished =>
        LET off == IF interiors_created > 0 THEN 1 ELSE 0 IN
        /\ Len(msgs) = off + Len(FailedInOrder)
        /\ off = 1 => msgs[1].level = "success"
        /\ \A k \in 1..Len(FailedInOrder) :
              /\ msgs[off + k].level = "error"
              /\ msgs[off + k].error.detail.file = FailedInOrder[k]

\* C7: a POST ends in the redirect exactly when its form validated; a
\* validated empty batch gives interiors_created = 0, no message and the
\* redirect; an invalid POST processes no file, persists nothing, queues no
\* message and renders the bound form; a GET renders an unbound form and
\* persists nothing.
C7_RedirectIffValid ==
    pc = "done" =>
        /\ method = "POST" => (response = "redirect" <=> valid)
        /\ (ValidPost /\ images = <<>>) =>
              (interiors_created = 0 /\ msgs = <<>> /\ response = "redirect")
        /\ (method = "POST" /\ ~valid) =>
              /\ idx = 0
              /\ store = store0
              /\ msgs = <<>>
              /\ response = "render"
              /\ form = "bound"
        /\ method = "GET" =>
              (response = "render" /\ form = "unbound" /\ store = store0)

\* C8: the view mode of a changelist request is its "view" parameter when it
\* carries one, otherwise the value stored in its session, otherwise "list";
\* a request with view=grid stores "grid", and a request without parameter in
\* a session that stores "grid" uses "grid".
C8_ViewMode ==
    [][ Len(log') = Len(log) + 1 =>
          LET r == log'[Len(log')] IN
          /\ r.query # <<>> => view_mode' = r.query
          /\ (r.query = <<>> /\ session[r.session] # <<>>) =>
                view_mode' = session[r.session]
          /\ (r.query = <<>> /\ session[r.session] = <<>>) =>
                view_mode' = <<"list">>
          /\ r.query = <<"grid">> => session'[r.session] = <<"grid">>
          /\ (r.query = <<>> /\ session[r.session] = <<"grid">>) =>
                view_mode' = <<"grid">>
      ]_vars

C8_Witness ==
    /\ Len(log) >= 2
    /\ log[Len(log) - 1].query = <<"grid">>
    /\ log[Len(log)].query = <<>>
    /\ log[Len(log)].session = log[Len(log) - 1].session
    /\ view_mode = <<"grid">>

RECURSIVE LastQuery(_, _)
LastQuery(l, s) ==
    IF l = <<>> THEN <<>>
    ELSE IF l[Len(l)].session = s /\ l[Len(l)].query # <<>> THEN l[Len(l)].query
    ELSE LastQuery(SubSeq(l, 1, Len(l) - 1), s)

\* C10: the view mode stored in a session is the "view" parameter of the
\* latest request of that session that carried one, and is missing when none
\* did; a request without parameter leaves every session as it was, and a
\* request changes no other session.
C10_SessionFrame ==
    /\ [](\A s \in Sessions : session[s] = LastQuery(log, s))
    /\ [][ Len(log') = Len(log) + 1 =>
             LET r == log'[Len(log')] IN
             /\ r.query = <<>> => session' = session
             /\ \A s \in Sessions \ {r.session} : session'[s] = session[s]
         ]_vars

C10_Witness ==
    /\ Len(log) = 3
    /\ log[1].query = <<"grid">>
    /\ log[2].session = log[1].session
    /\ log[2].query = <<"">>
    /\ log[3].session # log[1].session
    /\ log[3].query = <<>>
    /\ session[log[1].session] = <<"">>
    /\ session[log[3].session] = <<>>

====
